---- MODULE Spec2Model ----
(***************************************************************************)
(* Model of HooRAGLib's OpenAILLM wrapper (src/HooRAGLib/Models/OpenAI.py) *)
(* and of the collaborators it calls: the OpenAI client and the retriever. *)
(* Python exceptions are records [cls, msg]; Python None is NoneV.         *)
(***************************************************************************)
EXTENDS Integers, Sequences, FiniteSets, TLC

VARIABLES env, alive, llm, embedded, last, configures, threads

vars == <<env, alive, llm, embedded, last, configures, threads>>

\* ---------------------------------------------------------------- bounds
NumFull == 1
MaxChoices == 2
MaxConfigures == 2

\* ---------------------------------------------------------------- values
NoneV == "None"

\* not X, for the string-or-None values the code tests for truth
Falsy(x) == x = NoneV \/ x = ""

EnvValues == {NoneV, "", "env-key", "bad-key"}
ApiKeyArgs == {NoneV, "", "test-key", "bad-key"}
ModelNames == {"test-model"}

\* keys the provider accepts on models.list()
ProviderAccepts(key) == key \in {"env-key", "test-key"}

\* model lists the provider may advertise (client.models.list().data ids)
ProviderModelLists == {<<"gpt-3.5-turbo", "gpt-4">>}

ModelVersionArgs == {"gpt-3.5-turbo", "gpt-4", "bad-model", ""}
SystemPromptArgs == {NoneV, "sp"}
UserPrompts == {"hi"}
MaxTokensArgs == {10}

\* constructor keyword options: a dict with any of the keys api_key, test_1
CtorKwargs ==
    { [k \in D |-> IF k = "api_key" THEN a ELSE "test"] :
        D \in SUBSET {"api_key", "test_1"}, a \in ApiKeyArgs }

\* generate keyword options: a dict with any of system_prompt, temperature
GenKwargs ==
    { [k \in D |-> IF k = "system_prompt" THEN s ELSE "0.7"] :
        D \in SUBSET {"system_prompt", "temperature"}, s \in {"override"} }

\* ------------------------------------------------------------ retrievers
\* Objects a caller may hand to configure: FullRetrievers are instances of a
\* BaseRetriever subclass that implements retrieve, embed and has_embedding;
\* BaseObj is a plain BaseRetriever(); AlienObj is not a BaseRetriever.
RetrieverNames == <<"r1", "r2", "r3", "r4">>
FullRetrievers == {RetrieverNames[i] : i \in 1..NumFull}
BaseObj == "BaseRetriever()"
AlienObj == "not-a-retriever"
RetrieverArgs == FullRetrievers \cup {BaseObj, AlienObj, NoneV}

IsInstanceBaseRetriever(r) == r \in FullRetrievers \/ r = BaseObj

\* attributes of the object r (NoneV is Python's None)
ObjHasAttr(r, a) ==
    IF r = NoneV THEN FALSE
    ELSE IF r \in FullRetrievers THEN a \in {"retrieve", "embed", "has_embedding"}
    ELSE IF r = BaseObj THEN a = "retrieve"
    ELSE FALSE

ClassName(r) ==
    IF r = NoneV THEN "NoneType"
    ELSE IF r \in FullRetrievers THEN "FullRetriever"
    ELSE IF r = BaseObj THEN "BaseRetriever"
    ELSE "str"

\* ------------------------------------------------------------ exceptions
Exc(c, m) == [cls |-> c, msg |-> m]
NoExc == Exc("None", "None")

AttrErr(r, a) ==
    Exc("AttributeError", "'" \o ClassName(r) \o "' object has no attribute '" \o a \o "'")

\* ------------------------------------------------------------- __init__
\* Outcome of OpenAILLM.__init__(model_name, **kwargs) under environment e,
\* when the provider would list the model ids `ids`.
ResolveKey(e, kwargs) ==
    IF "api_key" \notin DOMAIN kwargs THEN e ELSE kwargs["api_key"]

\* the test `if not API_KEY`
MissingKeyNever(API_KEY) == FALSE
MissingKey(API_KEY) == Falsy(API_KEY)

\* the call OpenAI(api_key=API_KEY, **kwargs), as the client receives it
ClientCallDropsKwargs(API_KEY, kwargs) ==
    [fn |-> "OpenAI", api_key |-> API_KEY, kwargs |-> [k \in {} |-> ""]]
ClientCall(API_KEY, kwargs) ==
    [fn |-> "OpenAI", api_key |-> API_KEY, kwargs |-> kwargs]

InitResult(e, model_name, kwargs, ids) ==
    LET API_KEY == ResolveKey(e, kwargs)
        ctorCall == ClientCall(API_KEY, kwargs)
        listCall == [fn |-> "models.list"]
    IN  IF MissingKey(API_KEY)
        THEN [ok |-> FALSE,
              exc |-> Exc("ValueError", "OPENAI_API_KEY environment variable is not set."),
              calls |-> <<>>]
        ELSE IF "api_key" \in DOMAIN kwargs
        THEN \* OpenAI(api_key=API_KEY, **kwargs) names api_key twice
             [ok |-> FALSE,
              exc |-> Exc("TypeError", "got multiple values for keyword argument 'api_key'"),
              calls |-> <<>>]
        ELSE IF ~ProviderAccepts(API_KEY)
        THEN [ok |-> FALSE,
              exc |-> Exc("ValueError", "Invalid OpenAI API key provided."),
              calls |-> <<ctorCall, listCall>>]
        ELSE [ok |-> TRUE, exc |-> NoExc,
              calls |-> <<ctorCall, listCall>>,
              self |-> [client |-> [api_key |-> ctorCall.api_key, kwargs |-> ctorCall.kwargs],
                        models |-> ids,
                        model_name |-> model_name,
                        model_version |-> NoneV,
                        system_prompt |-> NoneV,
                        retriever |-> NoneV]]

NoLLM == [client |-> NoneV, models |-> <<>>, model_name |-> NoneV,
          model_version |-> NoneV, system_prompt |-> NoneV, retriever |-> NoneV]

NoLast == [op |-> "none", ok |-> TRUE, exc |-> NoExc, calls |-> <<>>]

\* threads calling configure on the one instance, each at a line of configure
Threads == {"t1", "t2"}
NoArgs == [model_version |-> NoneV, system_prompt |-> NoneV, retriever |-> NoneV]
Idle == [pc |-> "idle", args |-> NoArgs, exc |-> NoExc, result |-> NoneV]

Init ==
    /\ env \in EnvValues
    /\ alive = FALSE
    /\ llm = NoLLM
    /\ embedded = [r \in FullRetrievers |-> FALSE]
    /\ last = NoLast
    /\ configures = 0
    /\ threads = [t \in Threads |-> Idle]

Construct ==
    /\ ~alive
    /\ \E mn \in ModelNames, kw \in CtorKwargs, ids \in ProviderModelLists :
         LET res == InitResult(env, mn, kw, ids)
         IN  /\ alive' = res.ok
             /\ llm' = IF res.ok THEN res.self ELSE llm
             /\ last' = [op |-> "construct", ok |-> res.ok, exc |-> res.exc,
                         calls |-> res.calls,
                         args |-> [model_name |-> mn, kwargs |-> kw]]
    /\ UNCHANGED <<env, embedded, configures, threads>>

\* ---------------------------------------------------------- _check_*
HasAttr(self, a) == a \in DOMAIN self

\* _check_client: the exception it raises, or NoExc
CheckClient(self) ==
    IF ~HasAttr(self, "client") /\ ~HasAttr(self, "models")
    THEN Exc("ValueError", "OpenAI client is not initialized.")
    ELSE NoExc

\* _check_retriever: the exception it raises, or NoExc
CheckRetriever(self) ==
    IF ~HasAttr(self, "retriever")
    THEN Exc("ValueError", "Retriever is not set. Please configure the retriever before embedding.")
    ELSE NoExc

\* _check_embeddings under the retrievers' embedding flags emb
CheckEmbeddings(self, emb) ==
    IF CheckRetriever(self) # NoExc THEN CheckRetriever(self)
    ELSE IF ~ObjHasAttr(self.retriever, "has_embedding")
    THEN AttrErr(self.retriever, "has_embedding")
    ELSE IF ~emb[self.retriever]
    THEN Exc("EmbeddingError", "Embeddings have not been generated. Please call the embed() method first.")
    ELSE NoExc

\* ------------------------------------------------------------ configure
ModelIds(self) == {self.models[i] : i \in 1..Len(self.models)}

\* the two model-version checks: the exception raised, or NoExc
VersionErrorNoMembership(self, model_version) ==
    IF Falsy(model_version)
    THEN Exc("ValueError", "Model version must be specified.")
    ELSE NoExc
VersionError(self, model_version) ==
    IF Falsy(model_version)
    THEN Exc("ValueError", "Model version must be specified.")
    ELSE IF model_version \notin ModelIds(self)
    THEN Exc("ValueError", "Model version is not available as an OpenAI models.")
    ELSE NoExc

\* self.retriever = retriever
StoreRetrieverKeepsOmitted(self, retriever) ==
    IF retriever = NoneV THEN self ELSE [self EXCEPT !.retriever = retriever]
StoreRetriever(self, retriever) == [self EXCEPT !.retriever = retriever]

\* the dict configure returns
AckHardCodedTag(self) ==
    [status |-> TRUE,
     message |-> "OpenAI model configured successfully.",
     model_version |-> self.model_version,
     retriever |-> "BaseRetriever"]
Ack(self) ==
    [status |-> TRUE,
     message |-> "OpenAI model configured successfully.",
     model_version |-> self.model_version,
     retriever |-> ClassName(self.retriever)]

\* Outcome of configure(model_version, system_prompt, retriever): the
\* exception raised (or NoExc), the instance afterwards, the returned dict.
ConfigureAssignsFirst(self, model_version, system_prompt, retriever) ==
    LET s1 == [self EXCEPT !.model_version = model_version]
        s2 == [s1 EXCEPT !.system_prompt = system_prompt]
        s3 == StoreRetriever(s2, retriever)
    IN  IF CheckClient(self) # NoExc
        THEN [ok |-> FALSE, exc |-> CheckClient(self), self |-> self]
        ELSE IF VersionError(self, model_version) # NoExc
        THEN [ok |-> FALSE, exc |-> VersionError(self, model_version), self |-> s1]
        ELSE IF retriever # NoneV /\ ~IsInstanceBaseRetriever(retriever)
        THEN [ok |-> FALSE,
              exc |-> Exc("TypeError", "Retriever must be an instance of BaseRetriever."),
              self |-> s2]
        ELSE [ok |-> TRUE, exc |-> NoExc, self |-> s3, result |-> Ack(s3)]
ConfigureResult(self, model_version, system_prompt, retriever) ==
    LET s1 == [self EXCEPT !.model_version = model_version]
        s2 == [s1 EXCEPT !.system_prompt = system_prompt]
        s3 == StoreRetriever(s2, retriever)
    IN  IF CheckClient(self) # NoExc
        THEN [ok |-> FALSE, exc |-> CheckClient(self), self |-> self]
        ELSE IF VersionError(self, model_version) # NoExc
        THEN [ok |-> FALSE, exc |-> VersionError(self, model_version), self |-> self]
        ELSE IF retriever # NoneV /\ ~IsInstanceBaseRetriever(retriever)
        THEN [ok |-> FALSE,
              exc |-> Exc("TypeError", "Retriever must be an instance of BaseRetriever."),
              self |-> s2]
        ELSE [ok |-> TRUE, exc |-> NoExc, self |-> s3, result |-> Ack(s3)]

\* configures counts the successful configure calls, up to MaxConfigures
Count(n) == IF n < MaxConfigures THEN n + 1 ELSE n

Configure ==
    /\ alive
    /\ \E mv \in ModelVersionArgs, sp \in SystemPromptArgs, r \in RetrieverArgs :
         LET res == ConfigureResult(llm, mv, sp, r)
             a == [model_version |-> mv, system_prompt |-> sp, retriever |-> r]
         IN  /\ llm' = res.self
             /\ last' = [op |-> "configure", ok |-> res.ok, exc |-> res.exc,
                         calls |-> <<>>, args |-> a,
                         result |-> IF res.ok THEN res.result ELSE NoneV]
             /\ configures' = IF res.ok THEN Count(configures) ELSE configures
    /\ UNCHANGED <<env, alive, embedded, threads>>

\* ---------------------------------------------------------------- embed
\* what a full retriever's embed(client) may do
EmbedOutcomes == {"ok", "nodata", "raise"}

\* except Exception as e: raise EmbeddingError(f"Failed to generate embeddings: {str(e)}")
WrapPropagates(e) == e
Wrap(e) == Exc("EmbeddingError", "Failed to generate embeddings: " \o e.msg)

\* Outcome of embed() when the retriever's embed behaves as `outcome`;
\* raised is the exception raised inside the try block, or NoExc.
EmbedResult(self, emb, outcome) ==
    LET r == self.retriever
        call == [fn |-> "retriever.embed", retriever |-> r, client |-> self.client]
        caught(e, calls, emb2) ==
            [ok |-> FALSE, exc |-> Wrap(e), raised |-> e, calls |-> calls, emb |-> emb2]
    IN  IF CheckClient(self) # NoExc
        THEN [ok |-> FALSE, exc |-> CheckClient(self), raised |-> NoExc,
              calls |-> <<>>, emb |-> emb]
        ELSE IF CheckRetriever(self) # NoExc
        THEN [ok |-> FALSE, exc |-> CheckRetriever(self), raised |-> NoExc,
              calls |-> <<>>, emb |-> emb]
        ELSE IF ~ObjHasAttr(r, "embed")
        THEN caught(AttrErr(r, "embed"), <<>>, emb)
        ELSE IF outcome = "raise"
        THEN caught(Exc("RetrieverError", "retriever failure"), <<call>>, emb)
        ELSE IF outcome = "nodata"
        THEN \* response['data'] raises KeyError inside the try block
             caught(Exc("KeyError", "'data'"), <<call>>, [emb EXCEPT ![r] = TRUE])
        ELSE [ok |-> TRUE, exc |-> NoExc, raised |-> NoExc, calls |-> <<call>>,
              emb |-> [emb EXCEPT ![r] = TRUE],
              result |-> [status |-> TRUE,
                          message |-> "Embeddings generated successfully.",
                          embeddings |-> "data",
                          model |-> self.model_name]]

Embed ==
    /\ alive
    /\ \E outcome \in EmbedOutcomes :
         LET res == EmbedResult(llm, embedded, outcome)
         IN  /\ embedded' = res.emb
             /\ last' = [op |-> "embed", ok |-> res.ok, exc |-> res.exc,
                         raised |-> res.raised, calls |-> res.calls,
                         result |-> IF res.ok THEN res.result ELSE NoneV]
    /\ UNCHANGED <<env, alive, llm, configures, threads>>

\* ------------------------------------------------------------- generate
\* what a full retriever's retrieve(query) may do
RetrieveOutcomes == {"docs", "raise"}

\* what client.chat.completions.create may do: return n choices, or raise
ProviderOutcomes == (1..MaxChoices) \cup {0 - 1}
ProviderRaises == 0 - 1

ChoiceTexts == <<"a", "b", "c", "d", "e">>

\* content of the system message generate builds
SystemContent(self, kwargs) ==
    IF "system_prompt" \notin DOMAIN kwargs THEN self.system_prompt
    ELSE kwargs["system_prompt"]

\* the keyword arguments generate passes to chat.completions.create
RequestContextFirst(self, user_prompt, is_rag, max_tokens, kwargs, context) ==
    LET sys == [role |-> "system", content |-> SystemContent(self, kwargs)]
        usr == [role |-> "user", content |-> user_prompt]
        ctx == [role |-> "assistant", content |-> context]
    IN  [fn |-> "chat.completions.create",
         model |-> self.model_version,
         messages |-> IF is_rag THEN <<sys, ctx, usr>> ELSE <<sys, usr>>,
         max_tokens |-> max_tokens,
         kwargs |-> kwargs]
Request(self, user_prompt, is_rag, max_tokens, kwargs, context) ==
    LET sys == [role |-> "system", content |-> SystemContent(self, kwargs)]
        usr == [role |-> "user", content |-> user_prompt]
        ctx == [role |-> "assistant", content |-> context]
    IN  [fn |-> "chat.completions.create",
         model |-> self.model_version,
         messages |-> IF is_rag THEN <<sys, usr, ctx>> ELSE <<sys, usr>>,
         max_tokens |-> max_tokens,
         kwargs |-> kwargs]

\* The checks generate makes before it builds the request: the exception
\* raised (or NoExc) and the retriever calls made while checking.
GenerateChecksNoEmbeddings(self, emb, is_rag) ==
    IF CheckClient(self) # NoExc THEN [exc |-> CheckClient(self), calls |-> <<>>]
    ELSE IF ~is_rag THEN [exc |-> NoExc, calls |-> <<>>]
    ELSE [exc |-> CheckRetriever(self), calls |-> <<>>]
GenerateChecks(self, emb, is_rag) ==
    LET hasCall == [fn |-> "retriever.has_embedding", retriever |-> self.retriever]
    IN  IF CheckClient(self) # NoExc THEN [exc |-> CheckClient(self), calls |-> <<>>]
        ELSE IF ~is_rag THEN [exc |-> NoExc, calls |-> <<>>]
        ELSE IF CheckRetriever(self) # NoExc
        THEN [exc |-> CheckRetriever(self), calls |-> <<>>]
        ELSE [exc |-> CheckEmbeddings(self, emb),
              calls |-> IF ObjHasAttr(self.retriever, "has_embedding")
                        THEN <<hasCall>> ELSE <<>>]

\* the dict generate returns for the provider's response
NormalizeNamesVersion(self, response) ==
    [status |-> TRUE,
     message |-> "Response generated successfully.",
     choices |-> response.choices,
     model |-> self.model_version,
     usage |-> response.usage]
Normalize(self, response) ==
    [status |-> TRUE,
     message |-> "Response generated successfully.",
     choices |-> response.choices,
     model |-> self.model_name,
     usage |-> response.usage]

\* Outcome of generate(user_prompt, is_rag, max_tokens, **kwargs) when the
\* retriever's retrieve behaves as rout and the provider as pout; raised is
\* the exception a collaborator call raised (NoExc if none did), response
\* what the provider returned.
GenerateResult(self, emb, user_prompt, is_rag, max_tokens, kwargs, rout, pout) ==
    LET r == self.retriever
        chk == GenerateChecks(self, emb, is_rag)
        docs == "docs(" \o user_prompt \o ")"
        retCall(ret) == [fn |-> "retriever.retrieve", retriever |-> r,
                         query |-> user_prompt, returns |-> ret]
        req == Request(self, user_prompt, is_rag, max_tokens, kwargs, docs)
        pre == IF is_rag THEN Append(chk.calls, retCall(docs)) ELSE chk.calls
        response == [choices |-> SubSeq(ChoiceTexts, 1, pout),
                     model |-> self.model_version,
                     usage |-> [prompt_tokens |-> 1, completion_tokens |-> pout,
                                total_tokens |-> 1 + pout]]
        failed(e, rsd, calls) ==
            [ok |-> FALSE, exc |-> e, raised |-> rsd, calls |-> calls, response |-> NoneV]
        provider ==
            IF pout = ProviderRaises
            THEN failed(Exc("APIError", "provider failure"),
                        Exc("APIError", "provider failure"), Append(pre, req))
            ELSE [ok |-> TRUE, exc |-> NoExc, raised |-> NoExc,
                  calls |-> Append(pre, req), response |-> response,
                  result |-> Normalize(self, response)]
    IN  IF chk.exc # NoExc
        THEN failed(chk.exc, NoExc, chk.calls)
        ELSE IF ~is_rag THEN provider
        ELSE IF ~ObjHasAttr(r, "retrieve")
        THEN failed(AttrErr(r, "retrieve"), NoExc, chk.calls)
        ELSE IF r = BaseObj
        THEN \* BaseRetriever.retrieve itself
             failed(Exc("NotImplementedError", "Subclasses must implement this method."),
                    Exc("NotImplementedError", "Subclasses must implement this method."),
                    Append(chk.calls, retCall(NoneV)))
        ELSE IF rout = "raise"
        THEN failed(Exc("RetrieverError", "retriever failure"),
                    Exc("RetrieverError", "retriever failure"),
                    Append(chk.calls, retCall(NoneV)))
        ELSE provider

GenerateStoresPrompt ==
    /\ alive
    /\ \E up \in UserPrompts, is_rag \in BOOLEAN, mt \in MaxTokensArgs,
          kw \in GenKwargs, rout \in RetrieveOutcomes, pout \in ProviderOutcomes :
         LET res == GenerateResult(llm, embedded, up, is_rag, mt, kw, rout, pout)
         IN  /\ last' = [op |-> "generate", ok |-> res.ok, exc |-> res.exc,
                         raised |-> res.raised, calls |-> res.calls,
                         response |-> res.response,
                         args |-> [user_prompt |-> up, is_rag |-> is_rag,
                                   max_tokens |-> mt, kwargs |-> kw],
                         result |-> IF res.ok THEN res.result ELSE NoneV]
             /\ llm' = [llm EXCEPT !.system_prompt = SystemContent(llm, kw)]
    /\ UNCHANGED <<env, alive, embedded, configures, threads>>
Generate ==
    /\ alive
    /\ \E up \in UserPrompts, is_rag \in BOOLEAN, mt \in MaxTokensArgs,
          kw \in GenKwargs, rout \in RetrieveOutcomes, pout \in ProviderOutcomes :
         LET res == GenerateResult(llm, embedded, up, is_rag, mt, kw, rout, pout)
         IN  last' = [op |-> "generate", ok |-> res.ok, exc |-> res.exc,
                      raised |-> res.raised, calls |-> res.calls,
                      response |-> res.response,
                      args |-> [user_prompt |-> up, is_rag |-> is_rag,
                                max_tokens |-> mt, kwargs |-> kw],
                      result |-> IF res.ok THEN res.result ELSE NoneV]
    /\ UNCHANGED <<env, alive, llm, embedded, configures, threads>>

Next == Construct \/ Configure \/ Embed \/ Generate

Spec == Init /\ [][Next]_vars

\* ------------------------------------------- configure, thread by thread
\* Two threads call configure on one instance with no lock. A thread can be
\* preempted between any two statements; each attribute store is one step.

\* configurations the instance may have when the threads start
ConcPriors == {NoArgs, [model_version |-> "gpt-3.5-turbo", system_prompt |-> "sp",
                        retriever |-> RetrieverNames[1]]}

FreshLLM == InitResult("env-key", "test-model", [k \in {} |-> ""],
                       <<"gpt-3.5-turbo", "gpt-4">>)

InitConc ==
    /\ env = "env-key"
    /\ alive = TRUE
    /\ \E prior \in ConcPriors :
         IF prior = NoArgs
         THEN /\ llm = FreshLLM.self
              /\ configures = 0
              /\ last = [op |-> "construct", ok |-> TRUE, exc |-> NoExc,
                         calls |-> FreshLLM.calls,
                         args |-> [model_name |-> "test-model", kwargs |-> [k \in {} |-> ""]]]
         ELSE LET res == ConfigureResult(FreshLLM.self, prior.model_version,
                                         prior.system_prompt, prior.retriever)
              IN  /\ llm = res.self
                  /\ configures = 1
                  /\ last = [op |-> "configure", ok |-> res.ok, exc |-> res.exc,
                             calls |-> <<>>, args |-> prior, result |-> res.result]
    /\ embedded = [r \in FullRetrievers |-> FALSE]
    /\ threads = [t \in Threads |-> Idle]

\* lines 66-92: the call is made and the checks run
ConfEnter(t) ==
    /\ threads[t].pc = "idle"
    /\ \E mv \in ModelVersionArgs, sp \in SystemPromptArgs, r \in RetrieverArgs :
         LET a == [model_version |-> mv, system_prompt |-> sp, retriever |-> r]
             e == IF CheckClient(llm) # NoExc THEN CheckClient(llm)
                  ELSE VersionError(llm, mv)
         IN  threads' = [threads EXCEPT ![t] =
                           [pc |-> IF e = NoExc THEN "set_version" ELSE "done",
                            args |-> a, exc |-> e, result |-> NoneV]]
    /\ UNCHANGED <<env, alive, llm, embedded, last, configures>>

\* line 93: self.model_version = model_version
ConfSetVersion(t) ==
    /\ threads[t].pc = "set_version"
    /\ llm' = [llm EXCEPT !.model_version = threads[t].args.model_version]
    /\ threads' = [threads EXCEPT ![t].pc = "set_prompt"]
    /\ UNCHANGED <<env, alive, embedded, last, configures>>

\* line 95: self.system_prompt = system_prompt
ConfSetPrompt(t) ==
    /\ threads[t].pc = "set_prompt"
    /\ llm' = [llm EXCEPT !.system_prompt = threads[t].args.system_prompt]
    /\ threads' = [threads EXCEPT ![t].pc = "set_retriever"]
    /\ UNCHANGED <<env, alive, embedded, last, configures>>

\* lines 97-99: the isinstance check, then self.retriever = retriever
ConfSetRetriever(t) ==
    /\ threads[t].pc = "set_retriever"
    /\ LET r == threads[t].args.retriever
       IN  IF r # NoneV /\ ~IsInstanceBaseRetriever(r)
           THEN /\ threads' = [threads EXCEPT
                                 ![t].pc = "done",
                                 ![t].exc = Exc("TypeError",
                                     "Retriever must be an instance of BaseRetriever.")]
                /\ llm' = llm
           ELSE /\ llm' = StoreRetriever(llm, r)
                /\ threads' = [threads EXCEPT ![t].pc = "return"]
    /\ UNCHANGED <<env, alive, embedded, last, configures>>

\* lines 101-106: the dict is built from the instance as it is now
ConfReturn(t) ==
    /\ threads[t].pc = "return"
    /\ threads' = [threads EXCEPT ![t].pc = "done", ![t].result = Ack(llm)]
    /\ configures' = Count(configures)
    /\ UNCHANGED <<env, alive, llm, embedded, last>>

NextConc ==
    \E t \in Threads :
        \/ ConfEnter(t) \/ ConfSetVersion(t) \/ ConfSetPrompt(t)
        \/ ConfSetRetriever(t) \/ ConfReturn(t)

SpecConc == InitConc /\ [][NextConc]_vars

\* ================================================================ claims
\* Error kinds of the design, as the exceptions the code raises for them.
ConfigurationError(e) ==
    e.cls = "ValueError" /\ e.msg = "OPENAI_API_KEY environment variable is not set."
AuthenticationError(e) == e.cls = "AuthenticationError"
NotInitializedError(e) ==
    /\ e.cls = "ValueError"
    /\ e.msg \in {"OpenAI client is not initialized.",
                  "Retriever is not set. Please configure the retriever before embedding."}
ValidationError(e) ==
    /\ e.cls = "ValueError"
    /\ e.msg \in {"Model version must be specified.",
                  "Model version is not available as an OpenAI models."}
TypeMismatchError(e) == e.cls = "TypeError"
EmbeddingError(e) == e.cls = "EmbeddingError"

Triple(self) == [model_version |-> self.model_version,
                 system_prompt |-> self.system_prompt,
                 retriever |-> self.retriever]

\* the retriever r reports has_embedding() == True
HasEmbedding(r) == r \in FullRetrievers /\ embedded[r]

\* the calls of the last operation that went to fn
CallsTo(fn) == {i \in 1..Len(last.calls) : last.calls[i].fn = fn}

ReachedCollaborators ==
    CallsTo("retriever.retrieve") \cup CallsTo("chat.completions.create") # {}

\* C1: a generate call with is_rag=True made while the retriever is absent
\* or has no embeddings fails with EmbeddingError or NotInitializedError,
\* and calls neither retriever.retrieve nor the provider.
C1_RagBeforeEmbedFails ==
    (/\ last.op = "generate"
     /\ last.args.is_rag
     /\ (llm.retriever = NoneV \/ ~HasEmbedding(llm.retriever)))
    => (/\ ~last.ok
        /\ (EmbeddingError(last.exc) \/ NotInitializedError(last.exc))
        /\ ~ReachedCollaborators)

\* C2: configure with an empty or unlisted model version fails with
\* ValidationError and leaves model_version, system_prompt and retriever
\* as they were.
C2_InvalidVersionRejected ==
    [][(/\ last'.op = "configure"
        /\ (\/ Falsy(last'.args.model_version)
            \/ last'.args.model_version \notin ModelIds(llm)))
       => (/\ ~last'.ok
           /\ ValidationError(last'.exc)
           /\ Triple(llm') = Triple(llm))]_vars

C2_Witness ==
    /\ last.op = "configure"
    /\ last.args.model_version = "bad-model"
    /\ last.args.system_prompt = NoneV
    /\ ValidationError(last.exc)
    /\ llm.model_version = "gpt-3.5-turbo"
    /\ llm.system_prompt = "sp"
    /\ llm.retriever \in FullRetrievers

\* C3: every configure call either succeeds and leaves the three fields
\* equal to its arguments, or fails and leaves all three as they were.
C3_ConfigureAtomic ==
    [][last'.op = "configure"
       => (\/ last'.ok /\ Triple(llm') = last'.args
           \/ ~last'.ok /\ Triple(llm') = Triple(llm))]_vars

\* C4: a successful configure on a wrapper that was successfully configured
\* before leaves exactly its own arguments in the three fields; an omitted
\* system_prompt or retriever becomes None.
C4_FullReplacement ==
    [][(last'.op = "configure" /\ last'.ok /\ configures >= 1)
       => Triple(llm') = last'.args]_vars

\* the retriever given to an earlier successful configure was embedded, and
\* the latest successful configure omitted retriever and system prompt
C4_Witness ==
    /\ configures >= 2
    /\ last.op = "configure" /\ last.ok
    /\ last.args.retriever = NoneV /\ last.args.system_prompt = NoneV
    /\ \E r \in FullRetrievers : embedded[r]
    /\ llm.retriever = NoneV /\ llm.system_prompt = NoneV

\* C5: model_version is None or one of the model ids listed at construction.
C5_VersionListed ==
    alive => (llm.model_version = NoneV \/ llm.model_version \in ModelIds(llm))

C5_Witness ==
    /\ alive
    /\ llm.model_version = "gpt-4"
    /\ last.op = "configure" /\ ~last.ok
    /\ last.args.model_version = "bad-model"

\* C6: when generate with is_rag=True calls retriever.retrieve or the
\* provider, model_version is set, a retriever is present and it reports
\* embeddings.
C6_RagReachesCollaboratorsReady ==
    (last.op = "generate" /\ last.args.is_rag /\ ReachedCollaborators)
    => (/\ llm.model_version # NoneV
        /\ llm.retriever # NoneV
        /\ HasEmbedding(llm.retriever))

C6_Witness ==
    /\ last.op = "generate" /\ last.args.is_rag /\ last.ok
    /\ CallsTo("retriever.retrieve") # {}
    /\ CallsTo("chat.completions.create") # {}

\* no non-empty api_key argument and no OPENAI_API_KEY value
NoCredential(kwargs) ==
    /\ "api_key" \notin DOMAIN kwargs \/ Falsy(kwargs["api_key"])
    /\ Falsy(env)

\* C7: construction without a resolvable credential fails with
\* ConfigurationError before the client is created or asked for models.
C7_NoCredentialFails ==
    (last.op = "construct" /\ NoCredential(last.args.kwargs))
    => (/\ ~last.ok /\ ~alive
        /\ ConfigurationError(last.exc)
        /\ last.calls = <<>>)

C7_Witness ==
    /\ last.op = "construct"
    /\ env = NoneV
    /\ "api_key" \in DOMAIN last.args.kwargs
    /\ last.args.kwargs["api_key"] = NoneV
    /\ ConfigurationError(last.exc)

\* C8: construction with an explicit non-empty api_key the provider accepts
\* succeeds, with the client built from that key, the provider's model list
\* stored, model_name stored and the three configuration fields None.
C8_ExplicitKeyConstructs ==
    (/\ last.op = "construct"
     /\ "api_key" \in DOMAIN last.args.kwargs
     /\ ~Falsy(last.args.kwargs["api_key"])
     /\ ProviderAccepts(last.args.kwargs["api_key"]))
    => (/\ last.ok /\ alive
        /\ llm.client.api_key = last.args.kwargs["api_key"]
        /\ llm.models \in ProviderModelLists
        /\ llm.model_name = last.args.model_name
        /\ Triple(llm) = [model_version |-> NoneV, system_prompt |-> NoneV,
                          retriever |-> NoneV])

\* C9: without an api_key argument and with the environment variable set,
\* the client is built with the environment value and with every keyword
\* option of the constructor unchanged.
C9_EnvKeyAndOptionsForwarded ==
    (/\ last.op = "construct"
     /\ "api_key" \notin DOMAIN last.args.kwargs
     /\ ~Falsy(env))
    => (/\ CallsTo("OpenAI") = {1}
        /\ last.calls[1].api_key = env
        /\ last.calls[1].kwargs = last.args.kwargs)

C9_Witness ==
    /\ last.op = "construct" /\ last.ok
    /\ env = "env-key"
    /\ DOMAIN last.args.kwargs = {"test_1"}
    /\ llm.client.api_key = "env-key"
    /\ llm.client.kwargs["test_1"] = "test"

\* C10: when the provider rejects the credential, construction fails with
\* AuthenticationError, whose kind differs from that of the error raised
\* for a missing credential.
C10_RejectedKeyAuthenticationError ==
    (/\ last.op = "construct"
     /\ CallsTo("models.list") # {}
     /\ ~ProviderAccepts(last.calls[1].api_key))
    => (/\ ~last.ok
        /\ AuthenticationError(last.exc)
        /\ last.exc.cls # "ValueError")

RetrieverNotSet(e) ==
    /\ e.cls = "ValueError"
    /\ e.msg = "Retriever is not set. Please configure the retriever before embedding."

\* C11: embed() on a wrapper without a retriever fails with the
\* retriever-not-set NotInitializedError and calls no collaborator.
C11_EmbedWithoutRetriever ==
    (last.op = "embed" /\ llm.retriever = NoneV)
    => (/\ ~last.ok
        /\ RetrieverNotSet(last.exc)
        /\ last.calls = <<>>)

\* C12: generate with is_rag=True fails with the retriever-not-set
\* NotInitializedError when no retriever is held, and with EmbeddingError
\* when the held retriever has no embeddings; no other kind escapes.
C12_RagPreconditionKinds ==
    (last.op = "generate" /\ last.args.is_rag)
    => (/\ llm.retriever = NoneV => (~last.ok /\ RetrieverNotSet(last.exc))
        /\ (llm.retriever # NoneV /\ ~HasEmbedding(llm.retriever))
             => (~last.ok /\ EmbeddingError(last.exc)))

\* C13: an exception raised by the retriever's embed during embed() is
\* re-raised as EmbeddingError carrying its description; a failed embed that
\* passed the precondition checks raises nothing else and leaves
\* model_version, system_prompt and retriever unchanged.
C13_EmbedFailureWrapped ==
    [][(last'.op = "embed" /\ ~last'.ok /\ ~NotInitializedError(last'.exc))
       => (/\ last'.raised # NoExc
           /\ EmbeddingError(last'.exc)
           /\ last'.exc.msg = "Failed to generate embeddings: " \o last'.raised.msg
           /\ Triple(llm') = Triple(llm))]_vars

C13_Witness ==
    /\ last.op = "embed" /\ ~last.ok
    /\ last.raised = Exc("RetrieverError", "retriever failure")
    /\ CallsTo("retriever.embed") # {}
    /\ llm.retriever \in FullRetrievers
    /\ last.exc = Exc("EmbeddingError", "Failed to generate embeddings: retriever failure")

\* the exception belongs to one of the design's six error kinds
InTaxonomy(e) ==
    \/ ConfigurationError(e) \/ AuthenticationError(e) \/ NotInitializedError(e)
    \/ ValidationError(e) \/ TypeMismatchError(e) \/ EmbeddingError(e)

\* C14: an error raised by the provider or by retriever.retrieve during
\* generate leaves generate as an error of the design's own kinds.
C14_GenerateCollaboratorErrorsWrapped ==
    (last.op = "generate" /\ last.raised # NoExc)
    => (~last.ok /\ InTaxonomy(last.exc))

DefaultSystemPrompt == "You are a helpful assistant."

\* the system message content the design prescribes for the last generate
ExpectedSystemContent ==
    IF "system_prompt" \in DOMAIN last.args.kwargs THEN last.args.kwargs["system_prompt"]
    ELSE IF llm.system_prompt # NoneV THEN llm.system_prompt
    ELSE DefaultSystemPrompt

\* C15: in every request generate sends, the system message is the
\* system_prompt option if given, else the stored system_prompt, else the
\* default text, and is never None.
C15_SystemMessageContent ==
    last.op = "generate"
    => \A i \in CallsTo("chat.completions.create") :
         /\ last.calls[i].messages[1].role = "system"
         /\ last.calls[i].messages[1].content = ExpectedSystemContent
         /\ last.calls[i].messages[1].content # NoneV

Roles(messages) == [i \in 1..Len(messages) |-> messages[i].role]

\* C16: the request's messages are [system, user] without RAG and
\* [system, user, assistant] with RAG; the user content is user_prompt, and
\* the assistant content is what the single retriever.retrieve(user_prompt)
\* call, made before the provider call, returned.
C16_MessageList ==
    last.op = "generate"
    => \A i \in CallsTo("chat.completions.create") :
         LET m == last.calls[i].messages
             rs == CallsTo("retriever.retrieve")
         IN  /\ m[2].content = last.args.user_prompt
             /\ ~last.args.is_rag => (Roles(m) = <<"system", "user">> /\ rs = {})
             /\ last.args.is_rag
                  => /\ Roles(m) = <<"system", "user", "assistant">>
                     /\ Cardinality(rs) = 1
                     /\ \A j \in rs : /\ j < i
                                      /\ last.calls[j].query = last.args.user_prompt
                                      /\ last.calls[j].returns = m[3].content

C16_Witness ==
    /\ last.op = "generate" /\ last.args.is_rag /\ last.ok
    /\ Len(last.calls) = 3
    /\ last.calls[2].fn = "retriever.retrieve"
    /\ last.calls[3].messages[3] = [role |-> "assistant", content |-> "docs(hi)"]

\* C17: a successful generate returns the provider's completions in the
\* provider's order, the wrapper's model_name as model, and the provider's
\* usage counters.
C17_NormalizedResponse ==
    (last.op = "generate" /\ last.ok)
    => (/\ last.result.choices = last.response.choices
        /\ last.result.model = llm.model_name
        /\ last.result.usage = last.response.usage
        /\ last.result.status)

C17_Witness ==
    /\ last.op = "generate" /\ last.ok
    /\ llm.model_version = "gpt-4"
    /\ last.result.model = "test-model"
    /\ last.result.choices = <<"a", "b">>
    /\ last.result.usage.completion_tokens = 2

\* C18: a successful configure returns status True, the model_version now
\* stored, and the class name of the retriever now held ("NoneType" when
\* there is none).
C18_ConfigureAcknowledgment ==
    (last.op = "configure" /\ last.ok)
    => (/\ last.result.status
        /\ last.result.model_version = llm.model_version
        /\ last.result.model_version = last.args.model_version
        /\ last.result.retriever = ClassName(llm.retriever)
        /\ llm.retriever = NoneV <=> last.result.retriever = "NoneType")

C18_Witness ==
    /\ last.op = "configure" /\ last.ok
    /\ configures >= 2
    /\ last.args.retriever = NoneV
    /\ last.result.retriever = "NoneType"
    /\ last.result.model_version = "gpt-4"

RetrieverCapability == {"retrieve", "embed", "has_embedding"}

\* C19: a retriever held by the wrapper exposes retrieve, embed and
\* has_embedding; configure rejects any other object with TypeMismatchError.
C19_AcceptedRetrieverCapable ==
    /\ (alive /\ llm.retriever # NoneV)
         => \A a \in RetrieverCapability : ObjHasAttr(llm.retriever, a)
    /\ (/\ last.op = "configure"
        /\ last.args.retriever # NoneV
        /\ ~Falsy(last.args.model_version)
        /\ last.args.model_version \in ModelIds(llm)
        /\ \E a \in RetrieverCapability : ~ObjHasAttr(last.args.retriever, a))
         => (~last.ok /\ TypeMismatchError(last.exc))

\* C20: embed and generate leave model_name, models, model_version,
\* system_prompt and retriever unchanged; only configure changes the last
\* three; nothing changes model_name after construction.
C20_Frame ==
    [][alive
       => (/\ last'.op \in {"embed", "generate"}
                => (/\ llm'.model_name = llm.model_name
                    /\ llm'.models = llm.models
                    /\ Triple(llm') = Triple(llm))
           /\ Triple(llm') # Triple(llm) => last'.op = "configure"
           /\ llm'.model_name = llm.model_name)]_vars

C20_Witness ==
    /\ last.op = "generate" /\ last.ok
    /\ "system_prompt" \in DOMAIN last.args.kwargs
    /\ llm.system_prompt = "sp"
    /\ llm.model_version = "gpt-3.5-turbo"
    /\ llm.retriever \in FullRetrievers
    /\ llm.model_name = "test-model"

\* C21: every request generate sends to the provider names a model that is
\* set and is one of the model ids listed at construction.
C21_RequestModelListed ==
    last.op = "generate"
    => \A i \in CallsTo("chat.completions.create") :
         /\ last.calls[i].model # NoneV
         /\ last.calls[i].model \in ModelIds(llm)

\* both concurrent configure calls have returned without an exception
BothConfigured ==
    \A t \in Threads : threads[t].pc = "done" /\ threads[t].exc = NoExc

\* C22 (as claimed): after two concurrent configure calls with valid
\* arguments, the three fields equal the whole argument triple of one call.
C22_OneCallWins ==
    BothConfigured => \E t \in Threads : Triple(llm) = threads[t].args

\* C22 (amended): after two concurrent configure calls with valid arguments,
\* each of the three fields holds the value one of the two calls passed for
\* that field; the fields may come from different calls.
C22_EachFieldFromSomeCall ==
    BothConfigured
    => \A f \in {"model_version", "system_prompt", "retriever"} :
         \E t \in Threads : llm[f] = threads[t].args[f]

C22_Witness ==
    /\ BothConfigured
    /\ \A t \in Threads : Triple(llm) # threads[t].args
    /\ llm.model_version = threads["t2"].args.model_version
    /\ llm.retriever = threads["t1"].args.retriever
====
